---- MODULE Spec2Model ----
(***************************************************************************)
(* Model of the YouTube downloader backend (server.js): the two request    *)
(* handlers GET /api/info and GET /api/download, the format resolution of  *)
(* /api/download and the relay of the byte stream to the response.         *)
(*                                                                         *)
(* One request is followed from its arrival to its end.  Requests share no *)
(* state in server.js, so one request in isolation shows every behaviour.  *)
(* Strings the code inspects character by character (quality, itag,        *)
(* qualityLabel, title, container) are sequences of one-character strings; *)
(* strings it only passes along (messages, mime types) are TLA+ strings.   *)
(***************************************************************************)
EXTENDS Integers, Sequences, FiniteSets, TLC

(* ------------------------------ bounds -------------------------------- *)

\* Longest descriptor list (info.formats) the metadata fetch returns.
MaxFormats == 2

(* --------------------------- string values ---------------------------- *)

Q144p == <<"1", "4", "4", "p">>

Q1440p == <<"1", "4", "4", "0", "p">>

Q720p == <<"7", "2", "0", "p">>

QMp3 == <<"m", "p", "3">>

QAudio == <<"a", "u", "d", "i", "o">>

QHd720 == <<"h", "d", "7", "2", "0">>

QTiny == <<"t", "i", "n", "y">>

QHd1440 == <<"h", "d", "1", "4", "4", "0">>

QVideo == <<"v", "i", "d", "e", "o">>

Q2160p == <<"2", "1", "6", "0", "p">>

Q1080p == <<"1", "0", "8", "0", "p">>

Q480p == <<"4", "8", "0", "p">>

Q360p == <<"3", "6", "0", "p">>

Q240p == <<"2", "4", "0", "p">>

\* A quality query parameter that matches nothing and is no file-name text.
QUnsafe == <<"h", "d", "/", "x">>

\* The audioQuality ytdl-core reports for a descriptor that has audio.
AudioQualityLow ==
    <<"A", "U", "D", "I", "O", "_", "Q", "U", "A", "L", "I", "T", "Y", "_",
      "L", "O", "W">>

Mp4 == <<"m", "p", "4">>

Webm == <<"w", "e", "b", "m">>

\* A query parameter that is absent or empty: falsy in JavaScript.
Absent == <<>>

\* An optional numeric field (bitrate, audioBitrate) is <<n>>, or <<>> when
\* the descriptor lacks it.
Missing == <<>>

Digits == <<"0", "1", "2", "3", "4", "5", "6", "7", "8", "9">>

IsDigit(c) == \E i \in 1..10 : Digits[i] = c

DigitVal(c) == (CHOOSE i \in 1..10 : Digits[i] = c) - 1

IsAlnum(c) ==
    c \in {"a", "b", "c", "d", "e", "f", "g", "h", "i", "j", "k", "l", "m",
           "n", "o", "p", "q", "r", "s", "t", "u", "v", "w", "x", "y", "z",
           "A", "B", "C", "D", "E", "F", "G", "H", "I", "J", "K", "L", "M",
           "N", "O", "P", "Q", "R", "S", "T", "U", "V", "W", "X", "Y", "Z",
           "0", "1", "2", "3", "4", "5", "6", "7", "8", "9"}

\* String.prototype.startsWith
StartsWith(s, prefix) ==
    /\ Len(prefix) <= Len(s)
    /\ SubSeq(s, 1, Len(prefix)) = prefix

\* quality.replace('p', ''): the first "p" of the string is removed.
ReplaceFirstP(s) ==
    IF \E i \in 1..Len(s) : s[i] = "p"
    THEN LET k == CHOOSE i \in 1..Len(s) :
                      s[i] = "p" /\ \A j \in 1..(i - 1) : s[j] # "p"
         IN  SubSeq(s, 1, k - 1) \o SubSeq(s, k + 1, Len(s))
    ELSE s

\* Number of leading decimal digits of s.
RECURSIVE DigitPrefixLen(_)
DigitPrefixLen(s) ==
    IF s = <<>> \/ ~IsDigit(Head(s)) THEN 0 ELSE 1 + DigitPrefixLen(Tail(s))

RECURSIVE DigitsValue(_)
DigitsValue(s) ==
    IF s = <<>> THEN 0
    ELSE DigitsValue(SubSeq(s, 1, Len(s) - 1)) * 10 + DigitVal(s[Len(s)])

\* parseInt(itag): the value of the leading digits, NaN when there is none.
ParseInt(s) ==
    IF DigitPrefixLen(s) = 0 THEN [nan |-> TRUE, val |-> 0]
    ELSE [nan |-> FALSE, val |-> DigitsValue(SubSeq(s, 1, DigitPrefixLen(s)))]

(* ------------------------- stream descriptors ------------------------- *)

\* One entry of info.formats as ytdl-core reports it.
Descriptor(itag, hasVideo, hasAudio, label, quality, bitrate, audioBitrate, container, mimeType) ==
    [itag |-> itag, hasVideo |-> hasVideo, hasAudio |-> hasAudio,
     qualityLabel |-> label, quality |-> quality, bitrate |-> bitrate,
     audioBitrate |-> audioBitrate,
     audioQuality |-> IF hasAudio THEN AudioQualityLow ELSE Absent,
     container |-> container, mimeType |-> mimeType]

CombinedFormats ==
    { Descriptor(1, TRUE, TRUE, Q144p, QTiny, b, <<1>>, Mp4, "video/mp4") :
          b \in {Missing, <<1>>, <<2>>} }
    \cup { Descriptor(2, TRUE, TRUE, Q720p, QHd720, b, <<1>>, Mp4, "video/mp4") :
          b \in {<<1>>, <<2>>} }
    \cup { Descriptor(3, TRUE, TRUE, Q1440p, QHd1440, b, <<1>>, Webm, "video/webm") :
          b \in {<<1>>, <<2>>} }
    \cup { Descriptor(4, TRUE, TRUE, Absent, QTiny, <<2>>, <<1>>, Mp4, "video/mp4") }

VideoOnlyFormats ==
    { Descriptor(5, TRUE, FALSE, Q1440p, QHd1440, <<2>>, Missing, Webm, "video/webm") }

AudioOnlyFormats ==
    { Descriptor(14, FALSE, TRUE, Absent, QTiny, <<1>>, a, Webm, "audio/webm") :
          a \in {Missing, <<1>>, <<2>>} }

FormatPool == CombinedFormats \cup VideoOnlyFormats \cup AudioOnlyFormats

\* Every descriptor list of at most MaxFormats entries.
FormatLists == UNION { [1..n -> FormatPool] : n \in 0..MaxFormats }

\* The length of the longest title the metadata fetch reports.
MaxTitleLen == 101

\* Titles the metadata fetch reports (info.videoDetails.title): a short one
\* and one longer than the cut of the sanitisation, both with symbols.
Titles ==
    { <<"M", "y", " ", "#", "1">>,
      [i \in 1..MaxTitleLen |-> IF i % 2 = 1 THEN "a" ELSE "-"] }

(* -------------------------- format resolution ------------------------- *)

\* info.videoDetails.title.replace(/[^a-z0-9]/gi, '_').substring(0, 100)
TitleMax == 100

\* A sanitisation that replaces the symbols and keeps the whole title.
SanitizeTitleUncut(title) ==
    [i \in 1..Len(title) |-> IF IsAlnum(title[i]) THEN title[i] ELSE "_"]

SanitizeTitle(title) ==
    LET replaced == [i \in 1..Len(title) |->
                        IF IsAlnum(title[i]) THEN title[i] ELSE "_"]
    IN  SubSeq(replaced, 1, IF Len(replaced) < TitleMax THEN Len(replaced)
                            ELSE TitleMax)

\* `field || 0` of the reduce callbacks.
OrZero(field) == IF field = Missing THEN 0 ELSE field[1]

\* ytdl.filterFormats(formats, filter), as the positions it keeps, in order.
\* Every descriptor of the pool carries a url, which filterFormats requires.
FilterFormats(fs, filter) ==
    LET keep(i) ==
            CASE filter = "audioonly" -> ~fs[i].hasVideo /\ fs[i].hasAudio
              [] filter = "videoandaudio" -> fs[i].hasVideo /\ fs[i].hasAudio
    IN  SelectSeq([i \in 1..Len(fs) |-> i], keep)

\* Mutant of Better: `>=`, so that the last of several equal candidates wins.
BetterOrEqual(fs, key, best, current) ==
    IF OrZero(fs[current][key]) >= OrZero(fs[best][key]) THEN current ELSE best

\* The reduce callback: `return currentBitrate > bestBitrate ? current : best`.
Better(fs, key, best, current) ==
    IF OrZero(fs[current][key]) > OrZero(fs[best][key]) THEN current ELSE best

RECURSIVE ReduceFrom(_, _, _, _)
ReduceFrom(fs, key, best, rest) ==
    IF rest = <<>> THEN best
    ELSE ReduceFrom(fs, key, Better(fs, key, best, Head(rest)), Tail(rest))

\* array.reduce(callback) without an initial value, on a non-empty array of
\* positions: the accumulator starts as the first element.
ReduceBest(fs, key, idxs) == ReduceFrom(fs, key, Head(idxs), Tail(idxs))

\* The filter callback of qualityFormats.
QualityMatches(f, quality) ==
    \/ f.qualityLabel = quality
    \/ f.quality = quality
    \/ (f.qualityLabel # Absent /\ StartsWith(f.qualityLabel, ReplaceFirstP(quality)))

QualityFormats(fs, formats, quality) ==
    SelectSeq(formats, LAMBDA i : QualityMatches(fs[i], quality))

\* info.formats.find(f => f.itag === parseInt(itag)): the first position whose
\* itag equals the parsed number, 0 when find returns undefined.
FindItag(fs, itag) ==
    LET n == ParseInt(itag)
        hits == { i \in 1..Len(fs) : ~n.nan /\ fs[i].itag = n.val }
    IN  IF hits = {} THEN 0 ELSE CHOOSE i \in hits : \A j \in hits : i <= j

NotFound(branch, message) ==
    [found |-> FALSE, branch |-> branch, idx |-> 0, error |-> message,
     filename |-> <<>>, contentType |-> ""]

Found(branch, idx, filename, contentType) ==
    [found |-> TRUE, branch |-> branch, idx |-> idx, error |-> "",
     filename |-> filename, contentType |-> contentType]

IsAudioRequest(quality) == quality = QMp3 \/ quality = QAudio

\* Mutant of AudioCandidates: the 'audio' filter, which keeps every
\* descriptor that has audio.
AudioCandidatesAnyAudio(fs) ==
    SelectSeq([i \in 1..Len(fs) |-> i], LAMBDA i : fs[i].hasAudio)

\* ytdl.filterFormats(info.formats, 'audioonly')
AudioCandidates(fs) == FilterFormats(fs, "audioonly")

\* audioFormats.reduce(...): the highest audioBitrate.
SelectAudio(fs, audioFormats) == ReduceBest(fs, "audioBitrate", audioFormats)

\* The audio branch.
ResolveAudio(fs, title) ==
    LET audioFormats == AudioCandidates(fs)
    IN  IF Len(audioFormats) = 0
        THEN NotFound("audio", "No audio formats available")
        ELSE Found("audio", SelectAudio(fs, audioFormats),
                   title \o <<".">> \o QMp3, "audio/mpeg")

\* The itag branch.
ResolveItag(fs, itag, title) ==
    LET idx == FindItag(fs, itag)
    IN  IF idx = 0
        THEN NotFound("itag", "Format not available")
        ELSE Found("itag", idx, title \o <<".">> \o fs[idx].container,
                   fs[idx].mimeType)

\* Mutant of VideoCandidates: the 'video' filter, which keeps every
\* descriptor that has video.
VideoCandidatesAnyVideo(fs) ==
    SelectSeq([i \in 1..Len(fs) |-> i], LAMBDA i : fs[i].hasVideo)

\* ytdl.filterFormats(info.formats, 'videoandaudio')
VideoCandidates(fs) == FilterFormats(fs, "videoandaudio")

\* Mutant of SelectVideo: when no format matches the quality, the first
\* combined format is taken instead of the best one.
SelectVideoFirstOnMiss(fs, formats, quality) ==
    LET qualityFormats == QualityFormats(fs, formats, quality)
    IN  IF quality # Absent
        THEN IF Len(qualityFormats) > 0
             THEN ReduceBest(fs, "bitrate", qualityFormats)
             ELSE Head(formats)
        ELSE ReduceBest(fs, "bitrate", formats)

\* The quality filter and the three reduces of the video branch.
SelectVideo(fs, formats, quality) ==
    LET qualityFormats == QualityFormats(fs, formats, quality)
    IN  IF quality # Absent
        THEN IF Len(qualityFormats) > 0
             THEN ReduceBest(fs, "bitrate", qualityFormats)
             ELSE ReduceBest(fs, "bitrate", formats)
        ELSE ReduceBest(fs, "bitrate", formats)

\* The video branch.
ResolveVideo(fs, quality, title) ==
    LET formats == VideoCandidates(fs)
        idx == SelectVideo(fs, formats, quality)
        name == IF fs[idx].qualityLabel # Absent THEN fs[idx].qualityLabel
                ELSE IF quality # Absent THEN quality ELSE QVideo
    IN  IF Len(formats) = 0
        THEN NotFound("video",
               "No combined video+audio formats available. Try a different quality.")
        ELSE Found("video", idx,
                   title \o <<"_">> \o name \o <<".">> \o fs[idx].container,
                   IF fs[idx].mimeType # "" THEN fs[idx].mimeType ELSE "video/mp4")

\* Mutant of Resolve: the itag is looked at before the audio qualities.
ResolveIdFirst(fs, quality, itag, title) ==
    IF itag # Absent THEN ResolveItag(fs, itag, title)
    ELSE IF IsAudioRequest(quality) THEN ResolveAudio(fs, title)
    ELSE ResolveVideo(fs, quality, title)

\* The if / else if / else that picks the branch.
Resolve(fs, quality, itag, title) ==
    IF IsAudioRequest(quality) THEN ResolveAudio(fs, title)
    ELSE IF itag # Absent THEN ResolveItag(fs, itag, title)
    ELSE ResolveVideo(fs, quality, title)

(* ------------------------ metadata projection ------------------------- *)

\* The map callback of /api/info: the client-facing view of a descriptor
\* (its url is left out of the model).
ProjectFormat(f) ==
    [itag |-> f.itag,
     quality |-> IF f.qualityLabel # Absent THEN f.qualityLabel
                 ELSE IF f.audioQuality # Absent THEN f.audioQuality
                 ELSE QAudio,
     container |-> f.container, hasVideo |-> f.hasVideo, hasAudio |-> f.hasAudio]

\* info.formats.filter(hasVideo || hasAudio).map(...)
ProjectFormats(fs) ==
    LET kept == SelectSeq(fs, LAMBDA f : f.hasVideo \/ f.hasAudio)
    IN  [i \in 1..Len(kept) |-> ProjectFormat(kept[i])]

\* The `order` array of the sort callback.
QualityOrder == <<Q2160p, Q1440p, Q1080p, Q720p, Q480p, Q360p, Q240p, Q144p, QMp3>>

\* order.indexOf(q), from 0, -1 when q is not in the array.
OrderIndexOf(q) ==
    IF \E k \in 1..Len(QualityOrder) : QualityOrder[k] = q
    THEN (CHOOSE k \in 1..Len(QualityOrder) : QualityOrder[k] = q) - 1
    ELSE -1

\* Set.add in insertion order: a token already present is not added again.
SetAdd(seq, q) == IF \E k \in 1..Len(seq) : seq[k] = q THEN seq ELSE Append(seq, q)

RECURSIVE AddVideoQualities(_, _)
AddVideoQualities(qualities, projected) ==
    IF projected = <<>> THEN qualities
    ELSE AddVideoQualities(
             IF Head(projected).hasVideo /\ Head(projected).quality # Absent
             THEN SetAdd(qualities, Head(projected).quality)
             ELSE qualities,
             Tail(projected))

\* Array.prototype.sort with the callback order.indexOf(a) - order.indexOf(b):
\* a stable sort by OrderIndexOf.
RECURSIVE InsertByOrder(_, _)
InsertByOrder(sorted, q) ==
    IF sorted = <<>> THEN <<q>>
    ELSE IF OrderIndexOf(q) < OrderIndexOf(Head(sorted))
         THEN <<q>> \o sorted
         ELSE <<Head(sorted)>> \o InsertByOrder(Tail(sorted), q)

\* A sort that leaves the tokens in insertion order.
SortByOrderKeepsInput(seq) == seq

RECURSIVE SortByOrder(_)
SortByOrder(seq) ==
    IF seq = <<>> THEN <<>>
    ELSE InsertByOrder(SortByOrder(SubSeq(seq, 1, Len(seq) - 1)), seq[Len(seq)])

\* getAvailableQualities(formats), on the projected formats.
GetAvailableQualities(projected) ==
    LET video == AddVideoQualities(<<>>, projected)
        hasAudio == \E k \in 1..Len(projected) :
                        projected[k].hasAudio /\ ~projected[k].hasVideo
    IN  SortByOrder(IF hasAudio THEN SetAdd(video, QMp3) ELSE video)

(* ------------------------------ requests ------------------------------ *)

\* Values of the url query parameter: absent, not a video URL, a video URL.
Urls == {Absent, <<"x">>, <<"y", "t">>}

\* The urls ytdl.validateURL accepts.
ValidUrls == {<<"y", "t">>}

\* ytdl.validateURL(url)
ValidateURL(u) == u \in ValidUrls

\* Values of the quality query parameter.
Qualities == {Absent, QMp3, QAudio, Q144p, Q720p, QHd720, QUnsafe}

\* Values of the itag query parameter.
Itags == {Absent, <<"2">>, <<"1", "4">>, <<"2", "x">>, <<"x">>}

\* Thumbnail lists the metadata fetch reports, in ascending resolution.
ThumbnailLists == {<<>>, <<"lo.jpg">>, <<"lo.jpg", "hi.jpg">>}

\* error.message of a rejection or stream error of the external dependency.
UpstreamMessages == {"", "Video unavailable"}

(* ------------------------------- state -------------------------------- *)

VARIABLES
    pc,            \* position of the handler: idle, awaitInfo, relaying, done
    req,           \* route and req.query of the request being handled
    formats,       \* info.formats the handler read
    title,         \* info.videoDetails.title the handler read
    thumbnails,    \* info.videoDetails.thumbnails the handler read
    format,        \* position in formats of the descriptor selected, 0 if none
    res,           \* the response: status, headers, body, headersSent, ended
    downloadStream,\* the byte source: none, open, ended, errored
    connClosed,    \* the client has closed the connection
    calls,         \* external calls made for this request, in order
    validated,     \* ytdl.validateURL returned true for this request
    upstream,      \* how the external dependency failed, "ok" if it has not
    log            \* console.error lines of this request

vars == <<pc, req, formats, title, thumbnails, format, res, downloadStream,
          connClosed, calls, validated, upstream, log>>

\* The page (script.js), one browser tab.
VARIABLES
    videoUrlInput,       \* videoUrlInput.value
    fetchBtnDisabled,    \* fetchBtn.disabled
    fetches,             \* handleFetch calls awaiting fetchVideoMetadata
    errorMessage,        \* text of the error shown, "" when hidden
    preview,             \* <<>> or the title, duration, channel, thumbnail shown
    currentVideoData,    \* <<>> for null, or the one record stored
    options,             \* values of the options of qualitySelect after the first
    qualityValue,        \* qualitySelect.value
    downloadBtnDisabled, \* downloadBtn.disabled
    timers,              \* pending timers that re-enable the download button
    download             \* the download last started and what became of it

pageVars == <<videoUrlInput, fetchBtnDisabled, fetches, errorMessage, preview,
              currentVideoData, options, qualityValue, downloadBtnDisabled,
              timers, download>>

\* One call of validateYouTubeUrl and one rendering of a duration.
VARIABLES
    urlArg,              \* the url validateYouTubeUrl is called with
    validation,          \* <<>> or the value it returned
    durationArg,         \* data.duration of an /api/info answer
    durationText         \* <<>> or the duration of the metadata made from it

funVars == <<urlArg, validation, durationArg, durationText>>

\* What no step of the server touches.
browser == <<pageVars, funVars>>

allVars == <<vars, browser>>

NoRequest == [route |-> "", url |-> Absent, quality |-> Absent, itag |-> Absent]

\* A fresh ServerResponse: statusCode 200, nothing set, nothing written.
\* body is <<>> or holds the one JSON value written; streamed tells whether
\* any chunk of the byte source was written to it.
FreshRes ==
    [statusCode |-> 200, headersSent |-> FALSE, ended |-> FALSE, body |-> <<>>,
     filename |-> <<>>, contentType |-> "", streamed |-> FALSE]

\* The server with no request received.
ServerInit ==
    /\ pc = "idle"
    /\ req = NoRequest
    /\ formats = <<>>
    /\ title = <<>>
    /\ thumbnails = <<>>
    /\ format = 0
    /\ res = FreshRes
    /\ downloadStream = "none"
    /\ connClosed = FALSE
    /\ calls = <<>>
    /\ validated = FALSE
    /\ upstream = "ok"
    /\ log = <<>>

\* The options of qualitySelect in the HTML, which updateQualityOptions
\* restores: the eight video qualities and mp3.
DefaultOptions == <<Q2160p, Q1440p, Q1080p, Q720p, Q480p, Q360p, Q240p, Q144p, QMp3>>

\* No download started.
NoDownload == [state |-> "none", fallback |-> FALSE]

\* The page as loaded: no video fetched, nothing selected, the download
\* button disabled.
PageInit ==
    /\ videoUrlInput = <<>>
    /\ fetchBtnDisabled = FALSE
    /\ fetches = <<>>
    /\ errorMessage = ""
    /\ preview = <<>>
    /\ currentVideoData = <<>>
    /\ options = DefaultOptions
    /\ qualityValue = <<>>
    /\ downloadBtnDisabled = TRUE
    /\ timers = 0
    /\ download = NoDownload

\* No function has been called.
FunIdle ==
    /\ urlArg = <<>>
    /\ validation = <<>>
    /\ durationArg = <<>>
    /\ durationText = <<>>

\* The server started and the page loaded.
Init == ServerInit /\ PageInit /\ FunIdle

\* res.status(code).json({success: false, error: message}): sends the
\* headers, writes the body and ends the response.
JsonError(r, code, message) ==
    [r EXCEPT !.statusCode = code, !.headersSent = TRUE, !.ended = TRUE,
              !.body = <<[success |-> FALSE, error |-> message]>>]

\* `error.message || fallback`
MessageOr(message, fallback) == IF message # "" THEN message ELSE fallback

\* Mutant of UrlCheck: only the presence of the url is tested.
UrlCheckPresenceOnly(u) ==
    IF u = Absent THEN <<"YouTube URL is required">> ELSE <<>>

\* The url checks both handlers start with: the message of the 400 they
\* return early with, none when the handler goes on to the metadata fetch.
UrlCheck(u) ==
    IF u = Absent THEN <<"YouTube URL is required">>
    ELSE IF ~ValidateURL(u) THEN <<"Invalid YouTube URL">>
    ELSE <<>>

Receive(route, u, q, it) ==
    /\ req' = [route |-> route, url |-> u, quality |-> q, itag |-> it]
    /\ IF UrlCheck(u) # <<>>
       THEN /\ res' = JsonError(res, 400, UrlCheck(u)[1])
            /\ pc' = "done"
            /\ UNCHANGED <<calls, validated>>
       ELSE /\ validated' = ValidateURL(u)
            /\ calls' = Append(calls, "getInfo")
            /\ pc' = "awaitInfo"
            /\ UNCHANGED res
    /\ UNCHANGED <<formats, title, thumbnails, format, downloadStream,
                   connClosed, upstream, log,
                   browser>>

\* GET /api/info up to `await ytdl.getInfo(url)`.
InfoRequest ==
    /\ pc = "idle"
    /\ \E u \in Urls : Receive("info", u, Absent, Absent)

\* GET /api/download up to `await ytdl.getInfo(url)`.
DownloadRequest ==
    /\ pc = "idle"
    /\ \E u \in Urls, q \in Qualities, it \in Itags :
           Receive("download", u, q, it)

\* The catch block of /api/info: the 500 response.
InfoCatch(r, message) ==
    JsonError(r, 500, MessageOr(message, "Failed to fetch video information"))

\* The catch block of /api/download: the 500 response unless the headers
\* were sent.
DownloadCatch(r, message) ==
    IF r.headersSent THEN r
    ELSE JsonError(r, 500, MessageOr(message, "Download failed"))

\* `await ytdl.getInfo(url)` rejects: the catch block of the handler runs.
GetInfoRejects ==
    \E m \in UpstreamMessages :
        /\ pc = "awaitInfo"
        /\ upstream' = "getInfo"
        /\ IF req.route = "info"
           THEN /\ log' = Append(log, "Error fetching video info:")
                /\ res' = InfoCatch(res, m)
           ELSE /\ log' = Append(log, "Download error:")
                /\ res' = DownloadCatch(res, m)
        /\ pc' = "done"
        /\ UNCHANGED <<req, formats, title, thumbnails, format, downloadStream,
                       connClosed, calls, validated,
                       browser>>

\* GET /api/info after getInfo resolved: the projection and res.json (the
\* videoId, description, duration and channel, which the handler copies
\* through unchanged, are left out of the data).  An
\* empty thumbnail list makes `thumbnails[length - 1].url` throw a TypeError,
\* which the catch block turns into a 500.
InfoResolves ==
    /\ pc = "awaitInfo"
    /\ req.route = "info"
    /\ \E fs \in FormatLists, t \in Titles, th \in ThumbnailLists :
        /\ formats' = fs
        /\ title' = t
        /\ thumbnails' = th
        /\ IF th = <<>>
           THEN /\ log' = Append(log, "Error fetching video info:")
                /\ res' = InfoCatch(res,
                                "Cannot read properties of undefined (reading 'url')")
           ELSE /\ res' = [res EXCEPT !.headersSent = TRUE, !.ended = TRUE,
                               !.body = <<[success |-> TRUE,
                                           data |->
                                             [title |-> t,
                                              thumbnail |-> th[Len(th)],
                                              formats |-> ProjectFormats(fs),
                                              availableQualities |->
                                                GetAvailableQualities(
                                                  ProjectFormats(fs))]]>>]
                /\ UNCHANGED log
        /\ pc' = "done"
        /\ UNCHANGED <<req, format, downloadStream, connClosed, calls,
                       validated, upstream,
                       browser>>

\* GET /api/download after getInfo resolved, up to downloadStream.pipe(res):
\* format resolution, the 400 of a branch that finds nothing, the headers,
\* and the byte source opened with ytdl(url, {format}).  `threw` tells
\* whether ytdl(...) threw, which the catch block turns into a 500.
DownloadContinues(fs, t, threw, m) ==
    LET r == Resolve(fs, req.quality, req.itag, SanitizeTitle(t))
    IN  /\ formats' = fs
        /\ title' = t
        /\ format' = r.idx
        /\ IF ~r.found
           THEN /\ ~threw
                /\ res' = JsonError(res, 400, r.error)
                /\ pc' = "done"
                /\ UNCHANGED <<downloadStream, calls, upstream, log>>
           ELSE IF r.idx = 0
           THEN /\ ~threw
                /\ res' = JsonError(res, 400, "Requested format not available")
                /\ pc' = "done"
                /\ UNCHANGED <<downloadStream, calls, upstream, log>>
           ELSE /\ calls' = Append(calls, "ytdl")
                /\ IF threw
                   THEN /\ upstream' = "open"
                        /\ log' = Append(log, "Download error:")
                        /\ res' = DownloadCatch(
                                      [res EXCEPT !.filename = r.filename,
                                                  !.contentType = r.contentType], m)
                        /\ pc' = "done"
                        /\ UNCHANGED downloadStream
                   ELSE /\ res' = [res EXCEPT !.filename = r.filename,
                                              !.contentType = r.contentType]
                        /\ downloadStream' = "open"
                        /\ pc' = "relaying"
                        /\ UNCHANGED <<upstream, log>>
        /\ UNCHANGED <<req, thumbnails, connClosed, validated,
                       browser>>

DownloadResolves ==
    /\ pc = "awaitInfo"
    /\ req.route = "download"
    /\ \E fs \in FormatLists, t \in Titles : DownloadContinues(fs, t, FALSE, "")

DownloadOpenThrows ==
    /\ pc = "awaitInfo"
    /\ req.route = "download"
    /\ \E fs \in FormatLists, t \in Titles, m \in UpstreamMessages :
           DownloadContinues(fs, t, TRUE, m)

(* ------------------------------ the relay ----------------------------- *)

\* 'Download stream failed: ' + error.message
StreamFailed(m) ==
    IF m = "" THEN "Download stream failed: "
    ELSE "Download stream failed: Video unavailable"

\* Mutant of OnStreamError: the 500 response is written whether or not the
\* headers were sent.
OnStreamErrorAlways(r, m) == JsonError(r, 500, StreamFailed(m))

\* downloadStream.on('error', ...): console.error, and the 500 response only
\* when the headers were not sent.  Neither branch ends a response whose
\* headers were sent.
OnStreamError(r, m) ==
    IF ~r.headersSent THEN JsonError(r, 500, StreamFailed(m)) ELSE r

\* downloadStream.pipe(res), a chunk arrives: it is written to the response,
\* which sends the headers with the first one.
StreamData ==
    /\ pc = "relaying"
    /\ downloadStream = "open"
    /\ ~connClosed
    /\ res' = [res EXCEPT !.headersSent = TRUE, !.streamed = TRUE]
    /\ UNCHANGED <<pc, req, formats, title, thumbnails, format, downloadStream,
                   connClosed, calls, validated, upstream, log,
                   browser>>

\* The byte source ends: pipe ends the response, unless the client's close
\* has unpiped it.
StreamEnd ==
    /\ pc = "relaying"
    /\ downloadStream = "open"
    /\ downloadStream' = "ended"
    /\ res' = IF connClosed THEN res
              ELSE [res EXCEPT !.headersSent = TRUE, !.ended = TRUE]
    /\ pc' = "done"
    /\ UNCHANGED <<req, formats, title, thumbnails, format, connClosed, calls,
                   validated, upstream, log,
                   browser>>

\* The byte source emits 'error': the handler runs; pipe does not end the
\* response.
StreamError ==
    \E m \in UpstreamMessages :
        /\ pc = "relaying"
        /\ downloadStream = "open"
        /\ downloadStream' = "errored"
        /\ log' = Append(log, "Stream error:")
        /\ upstream' = IF res.headersSent THEN "streamLate" ELSE "streamEarly"
        /\ res' = OnStreamError(res, m)
        /\ pc' = "done"
        /\ UNCHANGED <<req, formats, title, thumbnails, format, connClosed,
                       calls, validated,
                       browser>>

\* The client gives up on a response that is still open and closes the
\* connection.  No code of the server reacts to it.
ClientDisconnect ==
    /\ downloadStream # "none"
    /\ ~res.ended
    /\ ~connClosed
    /\ connClosed' = TRUE
    /\ UNCHANGED <<pc, req, formats, title, thumbnails, format, res,
                   downloadStream, calls, validated, upstream, log,
                   browser>>

(* ----------------- the page: validation and formatting ---------------- *)

\* The pieces of YOUTUBE_URL_REGEX and of the patterns of extractVideoId.
Http == <<"h", "t", "t", "p", ":", "/", "/">>

Https == <<"h", "t", "t", "p", "s", ":", "/", "/">>

Www == <<"w", "w", "w", ".">>

YoutubeCom == <<"y", "o", "u", "t", "u", "b", "e", ".", "c", "o", "m", "/">>

YoutuBe == <<"y", "o", "u", "t", "u", ".", "b", "e", "/">>

WatchV ==
    <<"y", "o", "u", "t", "u", "b", "e", ".", "c", "o", "m", "/", "w", "a",
      "t", "c", "h", "?", "v", "=">>

Embed ==
    <<"y", "o", "u", "t", "u", "b", "e", ".", "c", "o", "m", "/", "e", "m",
      "b", "e", "d", "/">>

\* String.prototype.trim, for the white space of the inputs.
WhiteSpace == {" ", "\t", "\n"}

Trim(s) ==
    LET inked == { i \in 1..Len(s) : s[i] \notin WhiteSpace }
    IN  IF inked = {} THEN <<>>
        ELSE SubSeq(s, CHOOSE i \in inked : \A j \in inked : i <= j,
                       CHOOSE i \in inked : \A j \in inked : j <= i)

\* The literal lit occurs in s at position i.
MatchesAt(s, i, lit) ==
    /\ i + Len(lit) - 1 <= Len(s)
    /\ SubSeq(s, i, i + Len(lit) - 1) = lit

\* YOUTUBE_URL_REGEX.test(url):
\* /^(https?:\/\/)?(www\.)?(youtube\.com|youtu\.be)\/.+/
UrlRegexTest(url) ==
    LET afterScheme == IF StartsWith(url, Https) THEN Len(Https) + 1
                       ELSE IF StartsWith(url, Http) THEN Len(Http) + 1
                       ELSE 1
        afterWww == IF MatchesAt(url, afterScheme, Www)
                    THEN afterScheme + Len(Www) ELSE afterScheme
        HostAt(host) ==
            /\ MatchesAt(url, afterWww, host)
            /\ afterWww + Len(host) <= Len(url)
            /\ url[afterWww + Len(host)] # "\n"
    IN  HostAt(YoutubeCom) \/ HostAt(YoutuBe)

\* The characters that end the capture group [^&\n?#]+.
StopChars == {"&", "\n", "?", "#"}

\* The capture group ([^&\n?#]+) matched greedily from position i.
Capture(s, i) ==
    LET ends == { e \in i..Len(s) : \A k \in i..e : s[k] \notin StopChars }
    IN  IF ends = {} THEN <<>>
        ELSE SubSeq(s, i, CHOOSE e \in ends : \A e2 \in ends : e2 <= e)

\* url.match of the first pattern,
\* /(?:youtube\.com\/watch\?v=|youtu\.be\/|youtube\.com\/embed\/)([^&\n?#]+)/:
\* match[1] of the leftmost match, <<>> when there is none.
MatchFirstPattern(url) ==
    LET found == { m \in (1..Len(url)) \X {WatchV, YoutuBe, Embed} :
                     /\ MatchesAt(url, m[1], m[2])
                     /\ Capture(url, m[1] + Len(m[2])) # <<>> }
    IN  IF found = {} THEN <<>>
        ELSE LET m == CHOOSE a \in found : \A b \in found : a[1] <= b[1]
             IN  Capture(url, m[1] + Len(m[2]))

\* url.match of the second pattern, /youtube\.com\/.*[?&]v=([^&\n?#]+)/:
\* the greedy .* takes the last [?&]v= that a capture follows.
MatchSecondPattern(url) ==
    LET VAt(i) == { j \in (i + Len(YoutubeCom))..Len(url) :
                      /\ url[j] \in {"?", "&"}
                      /\ MatchesAt(url, j + 1, <<"v", "=">>)
                      /\ Capture(url, j + 3) # <<>>
                      /\ \A k \in (i + Len(YoutubeCom))..(j - 1) : url[k] # "\n" }
        starts == { i \in 1..Len(url) : MatchesAt(url, i, YoutubeCom) /\ VAt(i) # {} }
    IN  IF starts = {} THEN <<>>
        ELSE LET i == CHOOSE a \in starts : \A b \in starts : a <= b
                 j == CHOOSE a \in VAt(i) : \A b \in VAt(i) : b <= a
             IN  Capture(url, j + 3)

\* An extractVideoId that tries the first pattern only.
ExtractVideoIdFirstPatternOnly(url) == MatchFirstPattern(url)

\* extractVideoId(url): match[1] of the first pattern that matches, <<>> for
\* null.
ExtractVideoId(url) ==
    IF MatchFirstPattern(url) # <<>> THEN MatchFirstPattern(url)
    ELSE MatchSecondPattern(url)

Invalid(message) == [valid |-> FALSE, videoId |-> <<>>, message |-> message]

\* A validator that stops after the test of YOUTUBE_URL_REGEX.
ValidateYouTubeUrlShapeOnly(url) ==
    IF url = <<>> \/ Trim(url) = <<>> THEN Invalid("Please enter a YouTube URL")
    ELSE IF ~UrlRegexTest(url) THEN Invalid("Please enter a valid YouTube URL")
    ELSE [valid |-> TRUE, videoId |-> ExtractVideoId(url), message |-> ""]

\* validateYouTubeUrl(url)
ValidateYouTubeUrl(url) ==
    IF url = <<>> \/ Trim(url) = <<>> THEN Invalid("Please enter a YouTube URL")
    ELSE IF ~UrlRegexTest(url) THEN Invalid("Please enter a valid YouTube URL")
    ELSE IF ExtractVideoId(url) = <<>>
    THEN Invalid("Could not extract video ID from URL")
    ELSE [valid |-> TRUE, videoId |-> ExtractVideoId(url), message |-> ""]

\* Number.prototype.toString of a natural number.
RECURSIVE ToDigits(_)
ToDigits(n) ==
    IF n < 10 THEN <<Digits[n + 1]>>
    ELSE ToDigits(n \div 10) \o <<Digits[(n % 10) + 1]>>

\* n.toString().padStart(2, '0')
PadStart2(n) == IF n < 10 THEN <<"0">> \o ToDigits(n) ELSE ToDigits(n)

\* formatDuration(seconds)
FormatDuration(seconds) ==
    LET hours == seconds \div 3600
        minutes == (seconds % 3600) \div 60
        secs == seconds % 60
    IN  IF hours > 0
        THEN ToDigits(hours) \o <<":">> \o PadStart2(minutes) \o <<":">>
             \o PadStart2(secs)
        ELSE ToDigits(minutes) \o <<":">> \o PadStart2(secs)

\* The marker of a duration that is not available.
NotAvailable == <<"N", "/", "A">>

\* The duration of the metadata fetchVideoMetadata returns:
\* durationSeconds = parseInt(data.duration), then
\* durationSeconds ? formatDuration(durationSeconds) : 'N/A'.
DurationOf(duration) ==
    LET durationSeconds == ParseInt(duration)
    IN  IF ~durationSeconds.nan /\ durationSeconds.val # 0
        THEN FormatDuration(durationSeconds.val)
        ELSE NotAvailable

\* Video identifiers.
VideoIds == { <<"a", "B", "1">>, <<"x", "-", "_", "9">> }

\* The URLs of a video: the watch page with the v parameter first, alone or
\* followed by a parameter or a fragment, or after other parameters; the
\* short link; the embed page.
ListParam == <<"l", "i", "s", "t", "=", "P", "L", "1", "&">>

FeatureParam ==
    <<"f", "e", "a", "t", "u", "r", "e", "=", "y", "o", "u", "t", "u", ".",
      "b", "e", "&">>

WatchPath == <<"w", "a", "t", "c", "h", "?">>

WatchUrls(v) ==
    { Https \o Www \o WatchV \o v,
      Http \o WatchV \o v,
      WatchV \o v,
      Https \o Www \o WatchV \o v \o <<"&", "t", "=", "4", "2", "s">>,
      Https \o Www \o WatchV \o v \o <<"#", "t", "=", "1", "0">>,
      Https \o Www \o YoutubeCom \o WatchPath \o ListParam \o <<"v", "=">> \o v,
      Https \o Www \o YoutubeCom \o WatchPath \o ListParam \o <<"v", "=">> \o v
          \o <<"&", "i", "n", "d", "e", "x", "=", "2">>,
      Https \o YoutubeCom \o WatchPath \o FeatureParam \o <<"v", "=">> \o v
          \o <<"#", "t", "o", "p">> }

ShortUrls(v) ==
    { Https \o YoutuBe \o v,
      YoutuBe \o v,
      Https \o YoutuBe \o v \o <<"?", "t", "=", "5">> }

EmbedUrls(v) ==
    { Https \o Www \o Embed \o v,
      Http \o Embed \o v \o <<"?", "r", "e", "l", "=", "0">> }

VideoUrls(v) == WatchUrls(v) \cup ShortUrls(v) \cup EmbedUrls(v)

\* Inputs that are no video URL: nothing, white space, another host, a host
\* that ends with or starts with the platform's, and platform URLs without
\* an identifier.
OtherHostUrl ==
    <<"h", "t", "t", "p", "s", ":", "/", "/", "v", "i", "m", "e", "o", ".",
      "c", "o", "m", "/", "w", "a", "t", "c", "h", "?", "v", "=", "a", "B",
      "1">>

SuffixHostUrl ==
    <<"h", "t", "t", "p", "s", ":", "/", "/", "n", "o", "t", "y", "o", "u",
      "t", "u", "b", "e", ".", "c", "o", "m", "/", "w", "a", "t", "c", "h",
      "?", "v", "=", "a", "B", "1">>

PrefixHostUrl ==
    <<"h", "t", "t", "p", "s", ":", "/", "/", "y", "o", "u", "t", "u", "b",
      "e", ".", "c", "o", "m", ".", "e", "v", "i", "l", ".", "i", "o", "/",
      "w", "a", "t", "c", "h", "?", "v", "=", "a", "B", "1">>

FeedPath ==
    <<"f", "e", "e", "d", "/", "t", "r", "e", "n", "d", "i", "n", "g">>

MalformedInputs ==
    { <<>>, <<" ", " ">>, <<"\t", " ", "\n">>,
      OtherHostUrl, SuffixHostUrl, PrefixHostUrl,
      Https \o Www \o YoutubeCom,
      Https \o Www \o YoutubeCom \o FeedPath,
      Https \o Www \o WatchV,
      Https \o Www \o WatchV \o <<"&", "t", "=", "1">>,
      Https \o YoutuBe,
      Https \o Www \o Embed }

UrlStrings == MalformedInputs \cup UNION { VideoUrls(v) : v \in VideoIds }

\* Values of data.duration: missing, digits, and text that is no number.
DurationValues ==
    { Missing, <<"0">>, <<"5">>, <<"5", "9">>, <<"6", "0">>, <<"9", "5">>,
      <<"6", "0", "0">>, <<"3", "5", "9", "9">>, <<"3", "6", "0", "0">>,
      <<"3", "7", "2", "5">>, <<"3", "6", "0", "6", "0">>,
      <<"8", "6", "4", "0", "0">>, <<"a", "b", "c">>, <<"l", "i", "v", "e">> }
\* The inputs the two functions are tried on.
FunInit ==
    /\ urlArg \in UrlStrings
    /\ validation = <<>>
    /\ durationArg \in DurationValues
    /\ durationText = <<>>

\* validateYouTubeUrl(url) is called and returns.
CallValidateYouTubeUrl ==
    /\ validation = <<>>
    /\ validation' = <<ValidateYouTubeUrl(urlArg)>>
    /\ UNCHANGED <<urlArg, durationArg, durationText, pageVars, vars>>

\* fetchVideoMetadata makes the duration of its metadata from data.duration.
RenderDuration ==
    /\ durationText = <<>>
    /\ durationText' = <<DurationOf(durationArg)>>
    /\ UNCHANGED <<urlArg, validation, durationArg, pageVars, vars>>

(* --------------------------- the page: events ------------------------- *)

\* Most handleFetch calls that await fetchVideoMetadata at one time.
MaxFetches == 2

\* Most timers of downloadVideo pending at one time.
MaxTimers == 1

\* What the user types in videoUrlInput: nothing, white space, the URL of
\* another host, a platform URL without an identifier, a watch-page URL, and
\* a short link with white space around it.
PageInputs ==
    { <<>>, <<" ", " ">>, OtherHostUrl, Https \o Www \o YoutubeCom \o FeedPath,
      Https \o Www \o WatchV \o <<"a", "B", "1">>,
      <<" ">> \o Https \o YoutuBe \o <<"x", "-", "_", "9">> \o <<" ">> }

\* The options the user picks in qualitySelect when they are offered, and
\* the first, empty option.
PickedQualities == { <<>>, Q720p, QMp3 }

\* title and availableQualities of the successful /api/info answers: a
\* video with formats, a video with none, and an answer without title.
ApiAnswers ==
    { [title |-> <<"C", "l", "i", "p">>, availableQualities |-> <<Q720p, Q144p, QMp3>>],
      [title |-> <<"C", "l", "i", "p">>, availableQualities |-> <<>>],
      [title |-> Missing, availableQualities |-> <<Q720p, Q144p, QMp3>>] }

\* error of the /api/info answers that are no success.
ApiErrors == { "Video unavailable" }

\* The data of a successful /api/info answer for the video of a url.
ApiData(videoId) ==
    { [videoId |-> videoId, title |-> a.title, duration |-> <<"9", "5">>,
       channel |-> "Channel", thumbnail |-> <<"hi.jpg">>,
       availableQualities |-> a.availableQualities] : a \in ApiAnswers }

\* getThumbnailUrl(videoId): the pieces of the template literal.
GetThumbnailUrl(videoId) ==
    <<"https://img.youtube.com/vi/", videoId, "/maxresdefault.jpg">>

\* The metadata fetchVideoMetadata returns for a successful answer.
MetadataOf(data) ==
    [title |-> data.title, duration |-> DurationOf(data.duration),
     channel |-> data.channel, videoId |-> data.videoId,
     thumbnail |-> data.thumbnail,
     availableQualities |-> data.availableQualities]

FallbackTitle == <<"Y", "o", "u", "T", "u", "b", "e", " ", "V", "i", "d", "e", "o", " ", "-", " ">>

\* The metadata its catch block returns: the fallback to basic info.
FallbackMetadata(videoId) ==
    [title |-> FallbackTitle
               \o SubSeq(videoId, 1, IF Len(videoId) < 8 THEN Len(videoId) ELSE 8),
     duration |-> NotAvailable, channel |-> "Unknown", videoId |-> videoId,
     thumbnail |-> GetThumbnailUrl(videoId), availableQualities |-> <<>>]

\* The `order` array of updateQualityOptions.
ClientOrder == <<Q2160p, Q1440p, Q1080p, Q720p, Q480p, Q360p, Q240p, Q144p>>

ClientIndexOf(q) ==
    IF \E k \in 1..Len(ClientOrder) : ClientOrder[k] = q
    THEN (CHOOSE k \in 1..Len(ClientOrder) : ClientOrder[k] = q) - 1
    ELSE -1

RECURSIVE ClientInsert(_, _)
ClientInsert(sorted, q) ==
    IF sorted = <<>> THEN <<q>>
    ELSE IF ClientIndexOf(q) < ClientIndexOf(Head(sorted))
         THEN <<q>> \o sorted
         ELSE <<Head(sorted)>> \o ClientInsert(Tail(sorted), q)

\* videoQualities.sort(...)
RECURSIVE ClientSort(_)
ClientSort(seq) ==
    IF seq = <<>> THEN <<>>
    ELSE ClientInsert(ClientSort(SubSeq(seq, 1, Len(seq) - 1)), seq[Len(seq)])

\* updateQualityOptions(availableQualities): the option values after the
\* first option.
UpdateQualityOptions(availableQualities) ==
    IF availableQualities = <<>> THEN DefaultOptions
    ELSE LET videoQualities ==
                 SelectSeq(availableQualities, LAMBDA q : q # QMp3 /\ q # QAudio)
             hasAudio == \E k \in 1..Len(availableQualities) :
                             availableQualities[k] \in {QMp3, QAudio}
         IN  ClientSort(videoQualities) \o (IF hasAudio THEN <<QMp3>> ELSE <<>>)

\* The inputs among them that are video URLs.
VideoInputs == { u \in PageInputs : ValidateYouTubeUrl(Trim(u)).valid }

\* The user edits the URL input.
TypeUrl ==
    \E u \in PageInputs :
        /\ u # videoUrlInput
        /\ videoUrlInput' = u
        /\ UNCHANGED <<fetchBtnDisabled, fetches, errorMessage, preview,
                       currentVideoData, options, qualityValue,
                       downloadBtnDisabled, timers, download, funVars, vars>>

\* The user pastes the URL of a video over the URL input.
PasteVideoUrl ==
    \E u \in VideoInputs :
        /\ u # videoUrlInput
        /\ videoUrlInput' = u
        /\ UNCHANGED <<fetchBtnDisabled, fetches, errorMessage, preview,
                       currentVideoData, options, qualityValue,
                       downloadBtnDisabled, timers, download, funVars, vars>>

\* videoUrlInput.value.trim() of each input.
TrimmedInput == [u \in PageInputs |-> Trim(u)]

\* validateYouTubeUrl(url) of handleFetch, for each input.
InputValidation == [u \in PageInputs |-> ValidateYouTubeUrl(Trim(u))]

\* handleFetch() up to `await fetchVideoMetadata(...)`, whose fetch is sent.
HandleFetch ==
    LET url == TrimmedInput[videoUrlInput]
        checked == InputValidation[videoUrlInput]
    IN  /\ IF ~checked.valid
           THEN /\ errorMessage' = checked.message
                /\ UNCHANGED <<fetchBtnDisabled, fetches>>
           ELSE /\ Len(fetches) < MaxFetches
                /\ errorMessage' = ""
                /\ fetchBtnDisabled' = TRUE
                /\ fetches' = Append(fetches,
                                     [videoId |-> checked.videoId, url |-> url])
        /\ UNCHANGED <<videoUrlInput, preview, currentVideoData, options,
                       qualityValue, downloadBtnDisabled, timers, download,
                       funVars, vars>>

\* A click on fetchBtn, which is disabled while a fetch is loading.
FetchClick ==
    /\ ~fetchBtnDisabled
    /\ HandleFetch

\* The Enter key in videoUrlInput, which no loading state disables.
EnterKey ==
    /\ Len(fetches) <= MaxFetches
    /\ HandleFetch

\* displayVideoPreview(metadata, videoId), then setLoading(false) of the
\* finally block of handleFetch, for the i-th pending call.
DisplayVideoPreview(i, metadata) ==
    /\ preview' = <<[title |-> metadata.title,
                     duration |-> IF metadata.duration # NotAvailable
                                  THEN metadata.duration ELSE <<>>,
                     channel |-> metadata.channel,
                     thumbnail |-> IF metadata.thumbnail # <<>>
                                   THEN metadata.thumbnail
                                   ELSE GetThumbnailUrl(fetches[i].videoId)]>>
    /\ currentVideoData' = <<[videoId |-> fetches[i].videoId,
                              url |-> TrimmedInput[videoUrlInput],
                              title |-> metadata.title,
                              availableQualities |-> metadata.availableQualities]>>
    /\ options' = UpdateQualityOptions(metadata.availableQualities)
    /\ qualityValue' = <<>>
    /\ downloadBtnDisabled' = TRUE
    /\ fetchBtnDisabled' = FALSE
    /\ fetches' = SubSeq(fetches, 1, i - 1) \o SubSeq(fetches, i + 1, Len(fetches))
    /\ UNCHANGED <<videoUrlInput, timers, download, funVars, vars>>

\* The /api/info answer of a pending call arrives with success: true.
FetchSucceeds ==
    \E i \in 1..Len(fetches) :
        \E data \in ApiData(fetches[i].videoId) :
            /\ UNCHANGED errorMessage
            /\ DisplayVideoPreview(i, MetadataOf(data))

\* The /api/info answer of a pending call is an error, or the fetch rejects:
\* the catch block of fetchVideoMetadata shows it and returns the fallback.
FetchFails ==
    \E i \in 1..Len(fetches) :
        \E m \in ApiErrors :
            /\ errorMessage' = m
            /\ DisplayVideoPreview(i, FallbackMetadata(fetches[i].videoId))

\* The user picks an option of qualitySelect, or the first, empty one:
\* the change event runs handleQualityChange.
SelectQuality ==
    /\ currentVideoData # <<>>
    /\ \E q \in ({ options[k] : k \in 1..Len(options) } \cup { <<>> })
                 \cap PickedQualities :
        /\ q # qualityValue
        /\ qualityValue' = q
        /\ downloadBtnDisabled' = (q = <<>>)
    /\ UNCHANGED <<videoUrlInput, fetchBtnDisabled, fetches, errorMessage,
                   preview, currentVideoData, options, timers, download,
                   funVars, vars>>

\* A click on downloadBtn, which a disabled button does not deliver:
\* handleDownload() and downloadVideo(...).  A title that is no string makes
\* title.replace throw before link.click(), and the catch block calls
\* fallbackDownload; else the link is clicked, which requests /api/download,
\* and the timer that re-enables the button is set.
DownloadClick ==
    /\ ~downloadBtnDisabled
    /\ currentVideoData # <<>>
    /\ IF qualityValue = <<>>
       THEN /\ errorMessage' = "Please select a quality option from the dropdown"
            /\ UNCHANGED <<downloadBtnDisabled, timers, download>>
       ELSE IF currentVideoData[1].title = Missing
       THEN /\ errorMessage' = "Failed to start download. Trying fallback..."
            /\ download' = [state |-> "none", fallback |-> TRUE]
            /\ downloadBtnDisabled' = FALSE
            /\ UNCHANGED timers
       ELSE /\ timers < MaxTimers
            /\ download' = [state |-> "requested", fallback |-> FALSE]
            /\ downloadBtnDisabled' = TRUE
            /\ timers' = timers + 1
            /\ UNCHANGED errorMessage
    /\ UNCHANGED <<videoUrlInput, fetchBtnDisabled, fetches, preview,
                   currentVideoData, options, qualityValue, funVars, vars>>

\* The timer of downloadVideo fires after its 3 seconds.
TimerFires ==
    /\ timers > 0
    /\ timers' = timers - 1
    /\ downloadBtnDisabled' = FALSE
    /\ UNCHANGED <<videoUrlInput, fetchBtnDisabled, fetches, errorMessage,
                   preview, currentVideoData, options, qualityValue, download,
                   funVars, vars>>

\* The backend serves the download the link requested.  No code of the
\* page observes the answer.
DownloadServed ==
    /\ download.state = "requested"
    /\ download' = [download EXCEPT !.state = "served"]
    /\ UNCHANGED <<videoUrlInput, fetchBtnDisabled, fetches, errorMessage,
                   preview, currentVideoData, options, qualityValue,
                   downloadBtnDisabled, timers, funVars, vars>>

\* The backend answers the download with 400 or 500, or its stream fails.
DownloadFails ==
    /\ download.state = "requested"
    /\ download' = [download EXCEPT !.state = "failed"]
    /\ UNCHANGED <<videoUrlInput, fetchBtnDisabled, fetches, errorMessage,
                   preview, currentVideoData, options, qualityValue,
                   downloadBtnDisabled, timers, funVars, vars>>

(* --------------------------- specifications --------------------------- *)

ServerStep ==
    \/ InfoRequest
    \/ DownloadRequest
    \/ GetInfoRejects
    \/ InfoResolves
    \/ DownloadResolves
    \/ DownloadOpenThrows
    \/ StreamData
    \/ StreamEnd
    \/ StreamError

Next == ServerStep \/ ClientDisconnect

Spec == Init /\ [][Next]_allVars

\* Every step of the server and of the byte source that can happen does
\* happen; the client is free never to close the connection.
FairSpec == Spec /\ WF_allVars(ServerStep)

FunctionNext == CallValidateYouTubeUrl \/ RenderDuration

\* The validator and the duration rendering, each called once on an input
\* drawn from UrlStrings and DurationValues.
\* Fetching: the user edits the URL input, starts fetches with the button
\* and with the Enter key, and picks qualities, while the /api/info answers
\* arrive in any order.
FetchNext ==
    \/ TypeUrl
    \/ FetchClick
    \/ EnterKey
    \/ FetchSucceeds
    \/ FetchFails
    \/ SelectQuality

FetchSpec == Init /\ [][FetchNext]_allVars

\* Downloading: the user pastes video URLs, fetches them with the button,
\* picks qualities and clicks the download button, while the answers arrive
\* and the timers fire.
DownloadNext ==
    \/ PasteVideoUrl
    \/ FetchClick
    \/ FetchSucceeds
    \/ FetchFails
    \/ SelectQuality
    \/ DownloadClick
    \/ TimerFires
    \/ DownloadServed
    \/ DownloadFails

DownloadSpec == Init /\ [][DownloadNext]_allVars

FunctionInit == ServerInit /\ PageInit /\ FunInit

FunctionSpec == FunctionInit /\ [][FunctionNext]_allVars

(* ------------------------- vocabulary of the claims ------------------- *)

\* The metadata fetch of this request resolved and the handler ran on.
GotInfo == pc \in {"relaying", "done"} /\ validated /\ upstream # "getInfo"

DownloadResolved == GotInfo /\ req.route = "download"

AudioQuality == req.quality \in {QMp3, QAudio}

\* A video request: no itag, quality neither mp3 nor audio.
VideoRequest == DownloadResolved /\ req.itag = Absent /\ ~AudioQuality

CombinedSet == { i \in 1..Len(formats) : formats[i].hasVideo /\ formats[i].hasAudio }

AudioOnlySet == { i \in 1..Len(formats) : formats[i].hasAudio /\ ~formats[i].hasVideo }

\* The comparison key of a descriptor, a missing one counting as 0.
KeyOf(i, key) == IF formats[i][key] = <<>> THEN 0 ELSE formats[i][key][1]

IsMaxOf(i, set, key) == i \in set /\ \A j \in set : KeyOf(j, key) <= KeyOf(i, key)

\* The leading digits of a quality token: its numeric resolution.
NumericPrefix(q) == SubSeq(q, 1, DigitPrefixLen(q))

ExactLabel(i) == formats[i].qualityLabel = req.quality

PrefixLabel(i) ==
    /\ NumericPrefix(req.quality) # <<>>
    /\ Len(NumericPrefix(req.quality)) <= Len(formats[i].qualityLabel)
    /\ SubSeq(formats[i].qualityLabel, 1, Len(NumericPrefix(req.quality)))
           = NumericPrefix(req.quality)

QualityField(i) == formats[i].quality = req.quality

\* The request ended with the 400 of a branch that found no format, and the
\* byte source was never opened.
EndedNotFound ==
    /\ format = 0
    /\ res.statusCode = 400
    /\ res.ended
    /\ downloadStream = "none"
    /\ \A k \in 1..Len(calls) : calls[k] # "ytdl"

\* A descriptor was selected and the byte source asked for it.
Served == format # 0 /\ \E k \in 1..Len(calls) : calls[k] = "ytdl"

(* ------------------------------- claims ------------------------------- *)

\* C1 as stated: in a video request with a non-empty combined subset, when
\* no quality is requested or no combined descriptor matches the quality by
\* exact label or by numeric resolution prefix, the descriptor served is a
\* maximum-bitrate member of the combined subset, never NotFound.
C1_Original ==
    (/\ VideoRequest
     /\ CombinedSet # {}
     /\ \/ req.quality = Absent
        \/ \A i \in CombinedSet : ~ExactLabel(i) /\ ~PrefixLabel(i))
    => (Served /\ IsMaxOf(format, CombinedSet, "bitrate"))

\* The label starts with the requested quality less its first "p".
StartsLabel(i) ==
    /\ formats[i].qualityLabel # <<>>
    /\ StartsWith(formats[i].qualityLabel, ReplaceFirstP(req.quality))

\* C1 amended: in a video request with a non-empty combined subset, when no
\* quality is requested or no combined descriptor matches the quality by
\* its label, by its `quality` field, or by its label starting with the
\* quality less its first "p", the descriptor served is a maximum-bitrate
\* member of the combined subset, never NotFound.
C1_FallbackBest ==
    (/\ VideoRequest
     /\ CombinedSet # {}
     /\ \/ req.quality = Absent
        \/ \A i \in CombinedSet :
              ~ExactLabel(i) /\ ~StartsLabel(i) /\ ~QualityField(i))
    => (Served /\ IsMaxOf(format, CombinedSet, "bitrate"))

\* A quality was requested that nothing matches, and the best combined
\* descriptor, which is not the first one, was served.
C1_Witness ==
    /\ VideoRequest
    /\ req.quality = Q720p
    /\ Cardinality(CombinedSet) >= 2
    /\ \A i \in CombinedSet :
          ~ExactLabel(i) /\ ~StartsLabel(i) /\ ~QualityField(i)
    /\ Served
    /\ format > 1
    /\ KeyOf(format, "bitrate") > KeyOf(1, "bitrate")
    /\ 1 \in CombinedSet

\* The number an itag parameter denotes when it is a decimal numeral.
ExactId(it) ==
    IF it # <<>> /\ DigitPrefixLen(it) = Len(it) THEN <<DigitsValue(it)>> ELSE <<>>

\* The integer that the leading digits of an itag parameter denote.
LeadingId(it) ==
    IF NumericPrefix(it) = <<>> THEN <<>> ELSE <<DigitsValue(NumericPrefix(it))>>

WithId(id) == { i \in 1..Len(formats) : id # <<>> /\ formats[i].itag = id[1] }

First(set) == CHOOSE i \in set : \A j \in set : i <= j

\* C2 as stated: whenever an itag is supplied the result is the descriptor
\* whose id equals it exactly, or NotFound if there is none, for every
\* quality, mp3 and audio included.
C2_Original ==
    (DownloadResolved /\ req.itag # Absent)
    => IF WithId(ExactId(req.itag)) # {}
       THEN Served /\ format \in WithId(ExactId(req.itag))
       ELSE EndedNotFound

\* C2 amended: the order is audio, then id, then video.  When an itag is
\* supplied and the quality is neither mp3 nor audio, the result is the
\* first descriptor whose id equals the integer parseInt reads from the
\* itag (its leading digits), or NotFound if there is none; when the
\* quality is mp3 or audio the itag is ignored and the result is an
\* audio-only descriptor or NotFound.
C2_AudioThenId ==
    /\ (DownloadResolved /\ req.itag # Absent /\ ~AudioQuality)
       => IF WithId(LeadingId(req.itag)) = {}
          THEN EndedNotFound
          ELSE Served /\ format = First(WithId(LeadingId(req.itag)))
    /\ (DownloadResolved /\ req.itag # Absent /\ AudioQuality)
       => IF AudioOnlySet = {} THEN EndedNotFound
          ELSE Served /\ format \in AudioOnlySet

\* An itag that names a combined descriptor came with quality mp3, and an
\* audio-only descriptor was served.
C2_Witness ==
    /\ DownloadResolved
    /\ req.itag = <<"2">>
    /\ req.quality = QMp3
    /\ \E i \in 1..Len(formats) : formats[i].itag = 2
    /\ Served
    /\ format \in AudioOnlySet

\* C3 as stated: in a video request for quality q, if some combined
\* descriptor has qualityLabel exactly q, the descriptor served has
\* qualityLabel q and is a maximum-bitrate one among the exact matches.
C3_ExactFirst ==
    (/\ VideoRequest
     /\ req.quality # Absent
     /\ \E i \in CombinedSet : ExactLabel(i))
    => (/\ Served
        /\ IsMaxOf(format, { i \in CombinedSet : ExactLabel(i) }, "bitrate"))

\* C4: when the quality is mp3 or audio and no itag is given, the descriptor
\* served is audio-only and its audioBitrate is maximal among the audio-only
\* descriptors; with no audio-only descriptor the request ends with the 400
\* and no stream is opened.
C4_AudioBest ==
    (DownloadResolved /\ AudioQuality /\ req.itag = Absent)
    => IF AudioOnlySet = {}
       THEN EndedNotFound
       ELSE Served /\ IsMaxOf(format, AudioOnlySet, "audioBitrate")

\* An audio request met two audio-only descriptors and a combined one, and
\* the better audio-only descriptor, which is not the first, was served.
C4_Witness ==
    /\ DownloadResolved
    /\ req.quality = QMp3
    /\ req.itag = Absent
    /\ Cardinality(AudioOnlySet) >= 2
    /\ Served
    /\ \E j \in AudioOnlySet :
          j < format /\ KeyOf(j, "audioBitrate") < KeyOf(format, "audioBitrate")

\* The descriptors a max-by-key selection chose among: the audio-only ones
\* for audio; for video the combined ones that match the quality, or all
\* the combined ones when none matches or no quality was requested.
MatchedSet ==
    { i \in CombinedSet : ExactLabel(i) \/ QualityField(i) \/ StartsLabel(i) }

Candidates ==
    IF AudioQuality THEN AudioOnlySet
    ELSE IF req.quality # Absent /\ MatchedSet # {} THEN MatchedSet
    ELSE CombinedSet

SelectionKey == IF AudioQuality THEN "audioBitrate" ELSE "bitrate"

\* C5: in every max-by-key selection, among the candidates that share the
\* maximal key (a missing key counting as 0) the first in input order is
\* the one returned.
C5_FirstWinsTies ==
    (DownloadResolved /\ (AudioQuality \/ req.itag = Absent) /\ Served)
    => /\ IsMaxOf(format, Candidates, SelectionKey)
       /\ \A j \in Candidates :
             KeyOf(j, SelectionKey) = KeyOf(format, SelectionKey) => format <= j

\* Two different combined descriptors tie on the maximal bitrate, and the
\* earlier of the two was returned.
C5_Witness ==
    /\ VideoRequest
    /\ Served
    /\ \E j \in Candidates :
          /\ j > format
          /\ KeyOf(j, SelectionKey) = KeyOf(format, SelectionKey)
          /\ formats[j].qualityLabel # formats[format].qualityLabel

\* C6: a video request that is served is served a descriptor with both
\* video and audio; if the set has no such descriptor the request ends with
\* the 400 whatever the quality, and no byte stream is opened.
C6_CombinedOnly ==
    VideoRequest
    => /\ Served => (formats[format].hasVideo /\ formats[format].hasAudio)
       /\ CombinedSet = {} => EndedNotFound

\* A video request met a video-only descriptor of higher bitrate than the
\* combined one it was served; and one met only video-only and audio-only
\* descriptors and ended with the 400.
C6_Witness ==
    /\ VideoRequest
    /\ \/ /\ Served
          /\ \E j \in 1..Len(formats) :
                /\ formats[j].hasVideo /\ ~formats[j].hasAudio
                /\ KeyOf(j, "bitrate") > KeyOf(format, "bitrate")
       \/ /\ Len(formats) >= 2
          /\ CombinedSet = {}
          /\ EndedNotFound
          /\ req.quality = Q720p

\* The url of the request is missing or is no video URL.
BadUrl == req.url = Absent \/ req.url \notin ValidUrls

\* C7: a request whose url is missing or invalid gets the 400 and makes no
\* call to the external dependency at any point; and a metadata fetch is
\* made only after the validation of the url succeeded, and before any
\* stream is opened.
C7_ValidateFirst ==
    /\ (pc # "idle" /\ BadUrl)
       => /\ calls = <<>>
          /\ res.statusCode = 400
          /\ res.ended
          /\ downloadStream = "none"
    /\ calls # <<>> => (validated /\ ~BadUrl /\ calls[1] = "getInfo")

\* One request was refused for its url, with no external call.
C7_Witness ==
    /\ pc = "done"
    /\ req.route = "download"
    /\ req.url = <<"x">>
    /\ res.statusCode = 400
    /\ calls = <<>>

JsonErrorBody == res.body # <<>> /\ ~res.body[1].success

\* C8: a byte source that fails before the headers were sent yields the 500
\* JSON error and no stream bytes; one that fails after they were sent
\* yields no JSON error and no second response, only a log line; and no
\* request gets both stream bytes and a JSON error body.
C8_StreamFailure ==
    /\ upstream = "streamEarly"
       => /\ res.statusCode = 500
          /\ JsonErrorBody
          /\ res.ended
          /\ ~res.streamed
    /\ upstream = "streamLate"
       => /\ res.body = <<>>
          /\ res.statusCode = 200
          /\ res.streamed
          /\ \E k \in 1..Len(log) : log[k] = "Stream error:"
    /\ ~(res.streamed /\ res.body # <<>>)

\* The byte source failed after a chunk was relayed.
C8_Witness ==
    /\ downloadStream = "errored"
    /\ upstream = "streamLate"
    /\ res.streamed
    /\ res.body = <<>>

\* C9 as stated: every /api/download request that reaches the relay
\* eventually has its response ended or its connection terminated.
C9_RelayTerminal == (downloadStream = "open") ~> (res.ended \/ connClosed)

ErrorMessages ==
    {"YouTube URL is required", "Invalid YouTube URL",
     "No audio formats available", "Format not available",
     "No combined video+audio formats available. Try a different quality.",
     "Requested format not available", "Failed to fetch video information",
     "Download failed", "Video unavailable", "Download stream failed: ",
     "Download stream failed: Video unavailable",
     "Cannot read properties of undefined (reading 'url')"}

\* The external dependency failed before the headers were sent.
UpstreamFailedEarly == upstream \in {"getInfo", "open", "streamEarly"}

\* C10 as stated: every error response is a JSON body with success false
\* and a string error; its status is 400 exactly when the url is missing or
\* invalid or no format matches the request, and 500 exactly when the
\* external dependency failed before the headers were sent.
C10_ErrorStatuses ==
    /\ res.statusCode # 200
       => /\ JsonErrorBody
          /\ res.body[1].error \in ErrorMessages
    /\ res.statusCode = 400
       <=> (pc # "idle" /\ (BadUrl \/ (DownloadResolved /\ format = 0)))
    /\ res.statusCode = 500 <=> UpstreamFailedEarly

\* /api/info answered with the summary of the video.
InfoServed ==
    /\ req.route = "info"
    /\ GotInfo
    /\ res.statusCode = 200
    /\ res.body # <<>>

\* The availableQualities list of the /api/info answer.
Available == res.body[1].data.availableQualities

\* The fixed descending order of the video tokens.
FixedOrder == <<Q2160p, Q1440p, Q1080p, Q720p, Q480p, Q360p, Q240p, Q144p>>

InFixedOrder(q) == \E k \in 1..Len(FixedOrder) : FixedOrder[k] = q

RankOf(q) == CHOOSE k \in 1..Len(FixedOrder) : FixedOrder[k] = q

VideoLabels ==
    { formats[k].qualityLabel :
        k \in { n \in 1..Len(formats) :
                  formats[n].hasVideo /\ formats[n].qualityLabel # Absent } }

AvailableSet == { Available[i] : i \in 1..Len(Available) }

\* C12 as stated: the tokens of availableQualities other than mp3 are
\* exactly the qualityLabel values of the descriptors with hasVideo and a
\* non-empty qualityLabel, and mp3 is in the list exactly when some
\* descriptor has hasAudio and not hasVideo.
C12_TokensExact ==
    InfoServed
    => /\ AvailableSet \ {QMp3} = VideoLabels
       /\ QMp3 \in AvailableSet <=> AudioOnlySet # {}

\* The fallback thumbnail URL derived from the video identifier.
FallbackThumbnail == "https://img.youtube.com/vi/<videoId>/maxresdefault.jpg"

\* The branch that resolved the descriptor served.
ServedBranch ==
    IF AudioQuality THEN "audio" ELSE IF req.itag # Absent THEN "itag" ELSE "video"

\* The extension the branch resolves: mp3 for audio, else the container.
ResolvedExtension ==
    IF ServedBranch = "audio" THEN QMp3 ELSE formats[format].container

EndsWith(s, suffix) ==
    /\ Len(suffix) <= Len(s)
    /\ SubSeq(s, Len(s) - Len(suffix) + 1, Len(s)) = suffix

\* Every character but one "." is an alphanumeric or an underscore.
SafeButSeparator(s) ==
    \E k \in 1..Len(s) :
        /\ s[k] = "."
        /\ \A i \in 1..Len(s) : i # k => (IsAlnum(s[i]) \/ s[i] = "_")

\* C13 as stated: the Content-Disposition filename of a download, for every
\* title and every branch, consists only of alphanumerics and underscores
\* apart from the extension separator, ends with the resolved extension, and
\* is at most 100 characters long.
C13_Filename ==
    Served
    => /\ SafeButSeparator(res.filename)
       /\ EndsWith(res.filename, <<".">> \o ResolvedExtension)
       /\ Len(res.filename) <= TitleMax

\* The first 100 characters of the title, symbols replaced by underscores.
TitlePart ==
    [i \in 1..(IF Len(title) < TitleMax THEN Len(title) ELSE TitleMax) |->
        IF IsAlnum(title[i]) THEN title[i] ELSE "_"]

\* What the branch appends to the title part: the extension, and in the
\* video branch the quality label, else the requested quality, else "video".
FilenameSuffix ==
    IF ServedBranch = "video"
    THEN <<"_">> \o (IF formats[format].qualityLabel # Absent
                     THEN formats[format].qualityLabel
                     ELSE IF req.quality # Absent THEN req.quality ELSE QVideo)
         \o <<".">> \o ResolvedExtension
    ELSE <<".">> \o ResolvedExtension

\* C13, amended: the filename is the title part followed by the suffix of
\* the branch; the title part consists only of alphanumerics and underscores
\* and is at most 100 characters long, and the filename ends with the
\* resolved extension.
C13_TitlePartBounded ==
    Served
    => /\ res.filename = TitlePart \o FilenameSuffix
       /\ \A i \in 1..Len(TitlePart) : IsAlnum(TitlePart[i]) \/ TitlePart[i] = "_"
       /\ Len(res.filename) - Len(FilenameSuffix) <= TitleMax
       /\ EndsWith(res.filename, <<".">> \o ResolvedExtension)

\* A title longer than the cut was served by the video branch: the filename
\* is the 100 characters of the title part and the suffix.
C13_Witness ==
    /\ Served
    /\ ServedBranch = "video"
    /\ Len(title) > TitleMax
    /\ Len(res.filename) = TitleMax + Len(FilenameSuffix)

\* C14 as stated: every metadata result is answered with the summary, whose
\* thumbnail is the last entry of the thumbnail set when the set is
\* non-empty and the fallback URL derived from the video identifier when it
\* is empty; the request does not fail.
C14_Thumbnail ==
    (req.route = "info" /\ GotInfo /\ pc = "done")
    => /\ InfoServed
       /\ res.body[1].success
       /\ res.body[1].data.thumbnail =
              IF thumbnails # <<>> THEN thumbnails[Len(thumbnails)]
              ELSE FallbackThumbnail

\* The text is one or more decimal digits.
IsInteger(d) == d # <<>> /\ \A i \in 1..Len(d) : IsDigit(d[i])

\* A two-digit field of 0..59.
IsSixtieth(d) == Len(d) = 2 /\ IsInteger(d) /\ DigitsValue(d) < 60

ColonsOf(t) == { i \in 1..Len(t) : t[i] = ":" }

\* t is H:MM:SS with H*3600 + MM*60 + SS = s.
IsHoursMinutesSeconds(t, s) ==
    \E i, j \in ColonsOf(t) :
        /\ i < j
        /\ ColonsOf(t) = {i, j}
        /\ IsInteger(SubSeq(t, 1, i - 1))
        /\ IsSixtieth(SubSeq(t, i + 1, j - 1))
        /\ IsSixtieth(SubSeq(t, j + 1, Len(t)))
        /\ DigitsValue(SubSeq(t, 1, i - 1)) * 3600
           + DigitsValue(SubSeq(t, i + 1, j - 1)) * 60
           + DigitsValue(SubSeq(t, j + 1, Len(t))) = s

\* t is M:SS with M*60 + SS = s.
IsMinutesSeconds(t, s) ==
    \E i \in ColonsOf(t) :
        /\ ColonsOf(t) = {i}
        /\ IsInteger(SubSeq(t, 1, i - 1))
        /\ IsSixtieth(SubSeq(t, i + 1, Len(t)))
        /\ DigitsValue(SubSeq(t, 1, i - 1)) * 60
           + DigitsValue(SubSeq(t, i + 1, Len(t))) = s

\* C15 as stated: an integer duration s >= 0 is rendered H:MM:SS when
\* s >= 3600 and M:SS otherwise, with MM and SS two digits of 0..59 and
\* H*3600 + MM*60 + SS = s (3725 gives 1:02:05, 95 gives 1:35); a duration
\* that is missing or no number is rendered N/A.
C15_Duration ==
    durationText # <<>>
    => /\ IsInteger(durationArg)
          => IF DigitsValue(durationArg) >= 3600
             THEN IsHoursMinutesSeconds(durationText[1], DigitsValue(durationArg))
             ELSE IsMinutesSeconds(durationText[1], DigitsValue(durationArg))
       /\ ~IsInteger(durationArg) => durationText[1] = NotAvailable
       /\ durationArg = <<"3", "7", "2", "5">>
          => durationText[1] = <<"1", ":", "0", "2", ":", "0", "5">>
       /\ durationArg = <<"9", "5">> => durationText[1] = <<"1", ":", "3", "5">>

MalformedStep ==
    videoUrlInput \in MalformedInputs
    => (/\ ~InputValidation[videoUrlInput].valid
        /\ Len(fetches') <= Len(fetches))

\* C17: while the URL input holds a malformed string (empty or white space
\* only, a host that is not the platform's, a platform URL without an
\* identifier) the validator returns Invalid for it, and no step, a run of
\* the fetch handler included, adds a request to the API.
C17_MalformedNoRequest == [][MalformedStep]_allVars

\* The fetch handler ran on a platform URL without an identifier: it showed
\* the validator's message and left no request pending.
C17_Witness ==
    /\ videoUrlInput = Https \o Www \o YoutubeCom \o FeedPath
    /\ errorMessage = "Could not extract video ID from URL"
    /\ fetches = <<>>

\* The qualities the /api/info answer reported for the video displayed.
ReportedQualities ==
    { currentVideoData[1].availableQualities[k] :
        k \in 1..Len(currentVideoData[1].availableQualities) }

\* C18 as stated: after any fetch, succeeded, failed or with an empty list,
\* every option the quality dropdown offers is a quality reported as
\* available for the video displayed.
C18_OnlyAvailable ==
    currentVideoData # <<>>
    => \A k \in 1..Len(options) : options[k] \in ReportedQualities

\* C19 as stated, in the form a finite run refutes: once the backend has
\* failed to serve the download and no callback of the page is pending, the
\* page has invoked fallbackDownload for that download.
C19_FallbackOnFailure ==
    (download.state = "failed" /\ timers = 0 /\ fetches = <<>>)
    => download.fallback

\* C20 as stated: in every state of the page the download button is enabled
\* only if a non-empty quality is selected in the dropdown.
C20_EnabledOnlyWithSelection == ~downloadBtnDisabled => qualityValue # <<>>

\* validateYouTubeUrl of each value videoUrlInput.value.trim() can have.
StoredUrlValidation ==
    [u \in { TrimmedInput[x] : x \in PageInputs } |-> ValidateYouTubeUrl(u)]

\* C21 as stated: under any interleaving of fetch completions with edits of
\* the URL input and with further fetches, the url stored in currentVideoData
\* is the URL that was validated and fetched to produce its videoId: it is a
\* valid video URL whose identifier is the stored videoId.
C21_StoredUrlIsFetched ==
    currentVideoData # <<>>
    => /\ StoredUrlValidation[currentVideoData[1].url].valid
       /\ StoredUrlValidation[currentVideoData[1].url].videoId
              = currentVideoData[1].videoId

====
